---- MODULE Spec2Model ----
(***************************************************************************)
(* mailCopilot traceability index: identifier normalisation and            *)
(* validation, the file accessibility check, anomaly recording, the        *)
(* relational store, the audit log and the batch loop of process_emails.   *)
(*                                                                         *)
(* A Python str is a sequence of one-character strings; None and a raised  *)
(* ValueError are one-element sequences holding a token that is no         *)
(* character.                                                              *)
(***************************************************************************)
EXTENDS Integers, Sequences, FiniteSets, TLC

\* ------------------------------------------------------------------------
\* Bounds
\* ------------------------------------------------------------------------
MaxLen == 4
MaxPart == 1
MaxTld == 2
MaxInputs == 2

\* ------------------------------------------------------------------------
\* Python values
\* ------------------------------------------------------------------------
None == <<"None">>
ValueError == <<"ValueError">>

\* An exception leaving a call that otherwise returns a record
Raised(exception) == [raised |-> exception]
IsRaised(result) == DOMAIN result = {"raised"}

\* Optional[int] and Optional[str] locator fields: a set of at most one value
Nothing == {}
Some(v) == {v}

Range(s) == {s[i] : i \in 1..Len(s)}

StringsUpTo(S, n) == UNION {[1..k -> S] : k \in 0..n}

\* str.strip() removes leading and trailing whitespace characters
Whitespace == {" ", "\t", "\n"}

RECURSIVE lstrip(_)
lstrip(s) == IF s # <<>> /\ Head(s) \in Whitespace THEN lstrip(Tail(s)) ELSE s

RECURSIVE rstrip(_)
rstrip(s) ==
    IF s # <<>> /\ s[Len(s)] \in Whitespace
    THEN rstrip(SubSeq(s, 1, Len(s) - 1))
    ELSE s

strip(s) == rstrip(lstrip(s))

startswith(s, c) == s # <<>> /\ Head(s) = c
endswith(s, c) == s # <<>> /\ s[Len(s)] = c

\* Python truthiness of an Optional[str]: None and "" are falsy
Falsy(s) == s = None \/ s = <<>>

\* ------------------------------------------------------------------------
\* src/utils/path_utils.py
\* ------------------------------------------------------------------------
\* lines 32-35: at most one leading "<" and one trailing ">" are removed
strip_open(clean_id) == IF startswith(clean_id, "<") THEN Tail(clean_id) ELSE clean_id
strip_close(clean_id) ==
    IF endswith(clean_id, ">")
    THEN SubSeq(clean_id, 1, Len(clean_id) - 1)
    ELSE clean_id

\* the brackets are put back without looking for "@"
bracket_unchecked(clean_id) == <<"<">> \o clean_id \o <<">">>

\* lines 38-41
bracket(clean_id) ==
    IF "@" \notin Range(clean_id)
    THEN ValueError
    ELSE <<"<">> \o clean_id \o <<">">>

\* the existing brackets are kept and a second pair is put around them
normalize_message_id_keeps_brackets(message_id) ==
    IF Falsy(message_id) \/ strip(message_id) = <<>>
    THEN ValueError
    ELSE CHOOSE result \in
            {bracket(clean_id) : clean_id \in {strip(message_id)}} : TRUE

\* clean_id is the local variable after line 29
normalize_message_id(message_id) ==
    IF Falsy(message_id) \/ strip(message_id) = <<>>
    THEN ValueError
    ELSE CHOOSE result \in
            {bracket(strip_close(strip_open(clean_id))) :
                clean_id \in {strip(message_id)}} : TRUE

\* ------------------------------------------------------------------------
\* src/services/indexing/index_validator.py
\* ------------------------------------------------------------------------
\* Character classes of MESSAGE_ID_PATTERN
Letters ==
    {"a", "b", "c", "d", "e", "f", "g", "h", "i", "j", "k", "l", "m",
     "n", "o", "p", "q", "r", "s", "t", "u", "v", "w", "x", "y", "z",
     "A", "B", "C", "D", "E", "F", "G", "H", "I", "J", "K", "L", "M",
     "N", "O", "P", "Q", "R", "S", "T", "U", "V", "W", "X", "Y", "Z"}
Digits == {"0", "1", "2", "3", "4", "5", "6", "7", "8", "9"}
LocalChars == Letters \cup Digits \cup {".", "_", "%", "+", "-"}
DomainChars == Letters \cup Digits \cup {".", "-"}
MinTld == 2

AllIn(s, lo, hi, S) == \A k \in lo..hi : s[k] \in S

\* ^<[a-zA-Z0-9._%+-]+@[a-zA-Z0-9.-]+\.[a-zA-Z]{2,}>  anchored at both ends
FullMatch(s) ==
    LET n == Len(s) IN
    /\ n >= 2
    /\ s[1] = "<"
    /\ s[n] = ">"
    /\ \E i \in 3..(n - 1) : \E j \in (i + 2)..(n - 1) :
          /\ s[i] = "@"
          /\ AllIn(s, 2, i - 1, LocalChars)
          /\ s[j] = "."
          /\ AllIn(s, i + 1, j - 1, DomainChars)
          /\ (n - 1) - j >= MinTld
          /\ AllIn(s, j + 1, n - 1, Letters)

\* re.match with a trailing $: the end, or just before one final newline
MESSAGE_ID_PATTERN(s) ==
    \/ FullMatch(s)
    \/ /\ endswith(s, "\n")
       /\ FullMatch(SubSeq(s, 1, Len(s) - 1))

ValidationResult(valid, type, detail, recover) ==
    [is_valid |-> valid, anomaly_type |-> type,
     error_details |-> detail, can_recover |-> recover]

\* the pattern check after normalization is left out
validate_message_id_without_pattern(message_id) ==
    IF Falsy(message_id) \/ strip(message_id) = <<>>
    THEN ValidationResult(FALSE, "missing_message_id", "absent", FALSE)
    ELSE IF normalize_message_id(message_id) = ValueError
    THEN ValidationResult(FALSE, "malformed_message_id", "format_invalid", FALSE)
    ELSE ValidationResult(TRUE, "None", "None", TRUE)

validate_message_id(message_id) ==
    IF Falsy(message_id) \/ strip(message_id) = <<>>
    THEN ValidationResult(FALSE, "missing_message_id", "absent", FALSE)
    ELSE IF normalize_message_id(message_id) = ValueError
    THEN ValidationResult(FALSE, "malformed_message_id", "format_invalid", FALSE)
    ELSE IF ~MESSAGE_ID_PATTERN(normalize_message_id(message_id))
    THEN ValidationResult(FALSE, "malformed_message_id", "rfc_mismatch", FALSE)
    ELSE ValidationResult(TRUE, "None", "None", TRUE)

NotRun == ValidationResult(FALSE, "not_run", "not_run", FALSE)

\* What the file system holds at a path, as pathlib and open() see it;
\* name_too_long is a path that names nothing and that stat() refuses with
\* ENAMETOOLONG
FileStatus ==
    {"absent", "name_too_long", "directory", "denied", "io_error", "readable"}

\* Path.exists() answers False when stat() fails with ENOENT, ENOTDIR, EBADF
\* or ELOOP and lets every other OSError through
exists_raises(status) == status = "name_too_long"
exists(status) == status \notin {"absent", "name_too_long"}
is_file(status) == status \in {"denied", "io_error", "readable"}

\* open(file_path, "rb") followed by f.read(1)
read_one_byte(status) ==
    CASE status = "readable" -> "ok"
      [] status = "denied" -> "PermissionError"
      [] OTHER -> "OSError"

\* the ValidationResult returned, or the exception that leaves the call
validate_email_file(status) ==
    IF exists_raises(status) THEN Raised("OSError")
    ELSE IF ~exists(status)
    THEN ValidationResult(FALSE, "file_not_found", "not_found", FALSE)
    ELSE IF ~is_file(status)
    THEN ValidationResult(FALSE, "file_not_found", "not_a_file", FALSE)
    ELSE IF read_one_byte(status) = "PermissionError"
    THEN ValidationResult(FALSE, "file_not_found", "permission_denied", FALSE)
    ELSE IF read_one_byte(status) # "ok"
    THEN ValidationResult(FALSE, "file_not_found", "read_error", FALSE)
    ELSE ValidationResult(TRUE, "None", "None", TRUE)

AnomalyTypes ==
    {"missing_message_id", "malformed_message_id",
     "duplicate_detection_failure", "file_not_found"}

\* an unknown label falls back to the first member of the enum
_map_anomaly_type_first_member(anomaly_type_str) ==
    IF anomaly_type_str \in AnomalyTypes
    THEN anomaly_type_str
    ELSE "missing_message_id"

\* IndexValidator._map_anomaly_type
_map_anomaly_type(anomaly_type_str) ==
    IF anomaly_type_str \in AnomalyTypes
    THEN anomaly_type_str
    ELSE "malformed_message_id"

\* ------------------------------------------------------------------------
\* src/models/index_anomaly.py, src/models/email_message.py,
\* src/models/extracted_item.py
\* ------------------------------------------------------------------------
IndexAnomaly(anomaly_id, anomaly_type, email_file_path, message_id_value, error_details, resolved) ==
    [anomaly_id |-> anomaly_id,
     anomaly_type |-> anomaly_type,
     email_file_path |-> email_file_path,
     message_id_value |->
         IF anomaly_type = "missing_message_id" /\ ~Falsy(message_id_value)
         THEN None
         ELSE message_id_value,
     error_details |-> error_details,
     resolved |-> resolved]

\* __post_init__ of EmailMessage: the constructed record, or ValueError
EmailMessage(metadata) ==
    IF Falsy(metadata.message_id) THEN Raised("ValueError")
    ELSE IF Falsy(metadata.sender_email) THEN Raised("ValueError")
    ELSE IF metadata.format \notin {"mbox", "maildir"} THEN Raised("ValueError")
    ELSE IF metadata.format = "mbox" /\ metadata.storage_offset = Nothing THEN Raised("ValueError")
    ELSE IF metadata.format = "maildir" /\ metadata.maildir_key = Nothing THEN Raised("ValueError")
    ELSE metadata

\* Confidence scores are kept in hundredths
CONFIDENCE_THRESHOLD == 60
SAMPLE_CONFIDENCE == 85

\* the caller's index_status is kept
ExtractedItem_keeps_status(item_id, source_message_id, source_file_path, confidence_score, index_status) ==
    IF ~(0 <= confidence_score /\ confidence_score <= 100)
    THEN Raised("ValueError")
    ELSE [item_id |-> item_id,
          source_message_id |-> source_message_id,
          source_file_path |-> source_file_path,
          confidence_score |-> confidence_score,
          index_status |-> index_status]

\* the caller's index_status is overwritten at lines 65-68
ExtractedItem(item_id, source_message_id, source_file_path, confidence_score, index_status) ==
    IF ~(0 <= confidence_score /\ confidence_score <= 100)
    THEN Raised("ValueError")
    ELSE [item_id |-> item_id,
          source_message_id |-> source_message_id,
          source_file_path |-> source_file_path,
          confidence_score |-> confidence_score,
          index_status |-> IF confidence_score < CONFIDENCE_THRESHOLD
                           THEN "anomaly" ELSE "normal"]

\* ------------------------------------------------------------------------
\* src/services/email_parser/message_id_extractor.py
\* ------------------------------------------------------------------------
\* the header value is handed on as it was read
get_message_id_as_read(header) ==
    IF Falsy(header) THEN None ELSE header

\* MessageIdExtractor.get_message_id on the value of the Message-ID header
get_message_id(header) ==
    IF Falsy(header) THEN None
    ELSE IF normalize_message_id(header) = ValueError THEN header
    ELSE normalize_message_id(header)

_detect_format(status) == IF is_file(status) THEN "mbox" ELSE "unknown"

\* src/services/email_parser/base.py, EmailMetadata.__post_init__: the
\* constructed record, or ValueError
EmailMetadata(fields) ==
    IF Falsy(fields.message_id) THEN Raised("ValueError")
    ELSE IF Falsy(fields.sender_email) THEN Raised("ValueError")
    ELSE IF fields.format \notin {"mbox", "maildir"} THEN Raised("ValueError")
    ELSE IF fields.format = "mbox" /\ fields.storage_offset = Nothing
    THEN Raised("ValueError")
    ELSE IF fields.format = "maildir" /\ fields.maildir_key = Nothing
    THEN Raised("ValueError")
    ELSE fields

\* file is what the parsed message at file_path holds; every exception raised
\* inside, the ValueError of EmailMetadata included, is re-raised as
\* MetadataExtractionError
extract_metadata(file_path, file) ==
    IF exists_raises(file.status) THEN Raised("OSError")
    ELSE IF ~exists(file.status) THEN Raised("FileNotFoundError")
    ELSE IF read_one_byte(file.status) # "ok" \/ ~is_file(file.status)
    THEN Raised("MetadataExtractionError")
    ELSE IF Falsy(get_message_id(file.message_id))
    THEN Raised("MetadataExtractionError")
    ELSE IF ~file.has_date THEN Raised("MetadataExtractionError")
    ELSE IF IsRaised(EmailMetadata(
                [message_id |-> get_message_id(file.message_id),
                 sender_email |-> file.sender_email,
                 subject |-> file.subject,
                 file_path |-> file_path,
                 format |-> _detect_format(file.status),
                 storage_offset |-> IF _detect_format(file.status) = "mbox"
                                    THEN Some(0) ELSE Nothing,
                 maildir_key |-> Nothing]))
    THEN Raised("MetadataExtractionError")
    ELSE [message_id |-> get_message_id(file.message_id),
          sender_email |-> file.sender_email,
          subject |-> file.subject,
          file_path |-> file_path,
          format |-> _detect_format(file.status),
          storage_offset |-> IF _detect_format(file.status) = "mbox"
                             THEN Some(0) ELSE Nothing,
          maildir_key |-> Nothing]

\* ------------------------------------------------------------------------
\* src/storage/database.py: tables are sets of rows
\* ------------------------------------------------------------------------
\* the row never reaches the table
EmailMessageRepository_save_lost(table, email) == table

\* INSERT OR REPLACE on PRIMARY KEY (message_id, file_path)
EmailMessageRepository_save(table, email) ==
    {r \in table : ~(r.message_id = email.message_id /\ r.file_path = email.file_path)}
        \cup {email}

\* connect() opens the connection and never issues PRAGMA foreign_keys = ON;
\* SQLite leaves foreign-key enforcement off on a new connection
foreign_keys_on == TRUE

\* PRAGMA foreign_keys as connect() leaves it
foreign_keys == FALSE

\* the row the FOREIGN KEY of extracted_items names
parent_rows(emails, source_message_id, source_file_path) ==
    {m \in emails : m.message_id = source_message_id /\ m.file_path = source_file_path}

\* DELETE FROM email_messages WHERE message_id = ? AND file_path = ?
DELETE_FROM_email_messages(emails, message_id, file_path) ==
    emails \ parent_rows(emails, message_id, file_path)

\* FOREIGN KEY ... ON DELETE CASCADE, acting only under enforcement
ON_DELETE_CASCADE(items, message_id, file_path) ==
    IF foreign_keys
    THEN {r \in items : ~(r.source_message_id = message_id /\ r.source_file_path = file_path)}
    ELSE items

\* INSERT OR REPLACE INTO email_messages: a row stored under the key of
\* email is deleted before the new one is inserted, and that delete acts on
\* extracted_items as any delete of the row does
REPLACE_INTO_email_messages(emails, items, email) ==
    IF parent_rows(emails, email.message_id, email.file_path) # {}
    THEN ON_DELETE_CASCADE(items, email.message_id, email.file_path)
    ELSE items

\* INSERT OR REPLACE on PRIMARY KEY item_id; connect() never issues
\* PRAGMA foreign_keys, so the parent row is not looked up
ExtractedItemRepository_save(table, item) ==
    {r \in table : r.item_id # item.item_id} \cup {item}

\* the new row is added beside the row stored under its id
IndexAnomalyRepository_save_beside(table, anomaly) == table \cup {anomaly}

\* INSERT OR REPLACE on PRIMARY KEY anomaly_id
IndexAnomalyRepository_save(table, anomaly) ==
    {r \in table : r.anomaly_id # anomaly.anomaly_id} \cup {anomaly}

\* the stored row is handed to the constructor again
_row_to_item(row) ==
    ExtractedItem(row.item_id, row.source_message_id, row.source_file_path,
                  row.confidence_score, row.index_status)

find_by_source(table, message_id, file_path) ==
    {_row_to_item(r) : r \in
        {r \in table : r.source_message_id = message_id /\ r.source_file_path = file_path}}

find_all_with_anomalies(table) ==
    {_row_to_item(r) : r \in {r \in table : r.index_status = "anomaly"}}

find_by_email_path(table, file_path) == {a \in table : a.email_file_path = file_path}

find_unresolved(table) == {a \in table : ~a.resolved}

\* ------------------------------------------------------------------------
\* src/storage/audit_log.py: the log is the sequence of its lines
\* ------------------------------------------------------------------------
\* A line of the file is its text without the newline: the JSON text of a
\* value, a cut-off JSON text, nothing but blanks, or bytes that are not UTF-8
NoValue == [timestamp |-> "none"]
Line(text, value) == [text |-> text, value |-> value]
BlankLine == Line("blank", NoValue)
BadUtf8Line == Line("bad_utf8", NoValue)
Truncated(event) == Line("truncated", event)

\* json.dumps(event, ensure_ascii=False): one line of text, or TypeError for
\* a value json cannot encode (held under the key blob)
json_dumps(event) ==
    IF "blob" \in DOMAIN event THEN Raised("TypeError") ELSE Line("json", event)

\* json.loads(line)
json_loads(line) ==
    IF line.text = "json" THEN line.value ELSE Raised("JSONDecodeError")

\* open(self.log_path, "a"), f.write(...), and the end of the with block
open_append(log) == [lines |-> log, closed |-> FALSE]
f_write(f, text) == [f EXCEPT !.lines = Append(@, text)]
f_close(f) == [f EXCEPT !.closed = TRUE]

\* the file object as _write_event leaves it; json.dumps raises before
\* f.write is reached
_write_event_file(log, event) ==
    IF IsRaised(json_dumps(event))
    THEN f_close(open_append(log))
    ELSE f_close(f_write(open_append(log), json_dumps(event)))

\* the file is opened with "w"
_write_event_truncating(log, event) ==
    IF IsRaised(json_dumps(event)) THEN log ELSE <<json_dumps(event)>>

_write_event(log, event) == _write_event_file(log, event).lines

\* lines 43-51
index_anomaly_event(anomaly_id, anomaly_type, email_file_path, message_id_value) ==
    [timestamp |-> "now",
     event_type |-> "index_anomaly",
     anomaly_id |-> anomaly_id,
     anomaly_type |-> anomaly_type,
     email_file_path |-> email_file_path,
     message_id_value |-> message_id_value]

log_index_anomaly(log, anomaly_id, anomaly_type, email_file_path, message_id_value) ==
    _write_event(log, index_anomaly_event(anomaly_id, anomaly_type,
                                          email_file_path, message_id_value))

\* lines 71-77: the keys of metadata come last and win
traceability_event(event_type, message_id, file_path, metadata) ==
    metadata @@ [timestamp |-> "now",
                 event_type |-> event_type,
                 message_id |-> message_id,
                 file_path |-> file_path]

log_traceability_event(log, event_type, message_id, file_path, metadata) ==
    _write_event(log, traceability_event(event_type, message_id, file_path, metadata))

\* self.log_path.exists(): the file is there once a line was written
log_path_exists(log) == log # <<>>

\* lines 92-100: the events of the lines that are not blank and parse
RECURSIVE read_events(_)
read_events(log) ==
    IF log = <<>> THEN <<>>
    ELSE IF Head(log).text = "blank" \/ IsRaised(json_loads(Head(log)))
    THEN read_events(Tail(log))
    ELSE <<json_loads(Head(log))>> \o read_events(Tail(log))

\* the document written to output_path, or the exception raised while the
\* log is read: the file is decoded as UTF-8 with strict error handling
export_traceability_data(log) ==
    IF ~log_path_exists(log) THEN [written |-> TRUE, events |-> <<>>]
    ELSE IF \E k \in 1..Len(log) : log[k].text = "bad_utf8"
    THEN Raised("UnicodeDecodeError")
    ELSE [written |-> TRUE, events |-> read_events(log)]

\* ------------------------------------------------------------------------
\* ------------------------------------------------------------------------
summarize(anomalies) ==
    [total_anomalies |-> Cardinality(anomalies),
     by_type |-> [t \in {a.anomaly_type : a \in anomalies} |->
                     Cardinality({a \in anomalies : a.anomaly_type = t})],
     unresolved |-> Cardinality({a \in anomalies : ~a.resolved})]

\* the file path is ignored
get_anomalies_summary_unscoped(anomaly_repo, table, email_file_path) ==
    IF ~anomaly_repo THEN summarize({}) ELSE summarize(find_unresolved(table))

\* IndexValidator.get_anomalies_summary: anomaly_repo tells whether the
\* validator holds a repository, email_file_path is Nothing or Some(path)
get_anomalies_summary(anomaly_repo, table, email_file_path) ==
    IF ~anomaly_repo THEN summarize({})
    ELSE IF email_file_path # Nothing
         THEN summarize(UNION {find_by_email_path(table, path) :
                                   path \in email_file_path})
         ELSE summarize(find_unresolved(table))

\* ------------------------------------------------------------------------
\* State
\* ------------------------------------------------------------------------
VARIABLES
    raw,              \* argument handed to the identifier functions
    validated,        \* validate_message_id(raw) has returned
    id_result,        \* its ValidationResult
    norm_calls,       \* number of nested normalize_message_id calls made
    norm_once,        \* normalize_message_id(raw)
    norm_twice,       \* normalize_message_id(norm_once)
    fs,               \* file system: path -> file
    email_paths,      \* argument of process_emails
    pc,               \* "idle", "loop", "done" (returned), "raised"
    idx,              \* position of the for loop in email_paths
    total_emails,
    total_items,
    email_messages,   \* table email_messages
    extracted_items,  \* table extracted_items
    index_anomalies,  \* table index_anomalies
    audit_log,        \* lines of the audit log file
    next_uuid,        \* uuid4() draws
    trace,            \* per input: what the pass did with it
    summary,          \* anomalies_summary returned by process_emails
    op,               \* the last repository or audit-log call and its outcome
    export,           \* document written by export_traceability_data
    workers           \* per worker: events issued and the open log file

idVars == <<raw, validated, id_result, norm_calls, norm_once, norm_twice>>
batchVars ==
    <<fs, email_paths, pc, idx, total_emails, total_items, email_messages,
      extracted_items, index_anomalies, audit_log, next_uuid, trace, summary>>
storeVars == <<op, export, workers>>
vars == <<idVars, batchVars, storeVars>>

\* ------------------------------------------------------------------------
\* Inputs
\* ------------------------------------------------------------------------
Alphabet == {"a", "1", "_", "@", ".", "<", ">", " "}
PartChars == {"a", "1", "_"}
TldChars == {"a", "1"}
Opens == {<<>>, <<"<">>, <<" ", "<">>, <<"<", "<">>}
Closes == {<<>>, <<">">>, <<">", " ">>, <<">", ">">>}

AddressShaped ==
    {open \o loc \o <<"@">> \o dom \o <<".">> \o tld \o close :
        open \in Opens, loc \in StringsUpTo(PartChars, MaxPart),
        dom \in StringsUpTo(PartChars, MaxPart),
        tld \in StringsUpTo(TldChars, MaxTld), close \in Closes}

Examples ==
    {<<"t", "e", "s", "t", "@", "e", "x", "a", "m", "p", "l", "e", ".", "c", "o", "m">>,
     <<"<", "a", "@", "b", ">">>,
     <<"<", "o", "k", "@", "e", "x", "a", "m", "p", "l", "e", ".", "c", "o", "m", ">">>,
     <<" ", " ", " ">>}

IdInputs == {None} \cup StringsUpTo(Alphabet, MaxLen) \cup AddressShaped \cup Examples

Paths == {"/mail/a.eml", "/mail/b.eml"}

\* Message-ID header values a parsed message can hold
BlankId == <<" ">>
NoAtId == <<"a">>
NoDomainId == <<"<", "a", "@", "b", ">">>
GoodId == <<"a", "@", "a", ".", "a", "a">>
HeaderIds == {None, BlankId, NoAtId, NoDomainId, GoodId}

Sender == <<"s", "@", "x", ".", "y", "z">>
Subject == <<"s">>

NoFile(status) ==
    [status |-> status, message_id |-> None, has_date |-> FALSE,
     sender_email |-> <<>>, subject |-> <<>>]

Mail(message_id, has_date, sender_email) ==
    [status |-> "readable", message_id |-> message_id, has_date |-> has_date,
     sender_email |-> sender_email, subject |-> Subject]

\* every file status; every header value in an otherwise complete message;
\* messages without Date header; a message without From address
Files ==
    {NoFile(st) : st \in FileStatus \ {"readable"}}
        \cup {Mail(id, TRUE, Sender) : id \in HeaderIds}
        \cup {Mail(GoodId, FALSE, Sender), Mail(NoDomainId, FALSE, Sender),
              Mail(GoodId, TRUE, <<>>)}

NoTrace ==
    [visits |-> 0, ordinal |-> 0, file_result |-> NotRun, extract |-> "not_run",
     id_result |-> NotRun, anomaly_ids |-> {}, audit_ids |-> {},
     msg_saved |-> FALSE, item_saved |-> FALSE, swallowed |-> "none",
     escaped |-> "none", fault |-> "none"]

NoSummary == [total_anomalies |-> -1, by_type |-> <<>>, unresolved |-> -1]

IdIdle ==
    /\ raw = None
    /\ validated = FALSE
    /\ id_result = NotRun
    /\ norm_calls = 0
    /\ norm_once = None
    /\ norm_twice = None

BatchIdle ==
    /\ fs = [p \in Paths |-> NoFile("absent")]
    /\ email_paths = <<>>
    /\ pc = "idle"
    /\ idx = 1
    /\ total_emails = 0
    /\ total_items = 0
    /\ email_messages = {}
    /\ extracted_items = {}
    /\ index_anomalies = {}
    /\ audit_log = <<>>
    /\ next_uuid = 1
    /\ trace = <<>>
    /\ summary = NoSummary

NoOp == [name |-> "none", raised |-> "none"]
NoExport == [written |-> FALSE, events |-> <<>>]

MaxWorkers == 3
MaxEvents == 2

\* no worker has issued an event or holds the log file open
NoWorkers == [w \in 1..MaxWorkers |-> [issued |-> 0, f |-> Nothing]]

StoreIdle ==
    /\ op = NoOp
    /\ export = NoExport
    /\ workers = NoWorkers

\* ------------------------------------------------------------------------
\* Identifier functions applied to one argument
\* ------------------------------------------------------------------------
IdInit ==
    /\ raw \in IdInputs
    /\ validated = FALSE
    /\ id_result = NotRun
    /\ norm_calls = 0
    /\ norm_once = None
    /\ norm_twice = None
    /\ BatchIdle
    /\ StoreIdle

ValidateMessageId ==
    /\ pc = "idle"
    /\ ~validated
    /\ validated' = TRUE
    /\ id_result' = validate_message_id(raw)
    /\ UNCHANGED <<raw, norm_calls, norm_once, norm_twice, batchVars, storeVars>>

NormalizeMessageId ==
    /\ pc = "idle"
    /\ norm_calls = 0
    /\ norm_calls' = 1
    /\ norm_once' = normalize_message_id(raw)
    /\ UNCHANGED <<raw, validated, id_result, norm_twice, batchVars, storeVars>>

NormalizeAgain ==
    /\ pc = "idle"
    /\ norm_calls = 1
    /\ norm_once # ValueError
    /\ norm_calls' = 2
    /\ norm_twice' = normalize_message_id(norm_once)
    /\ UNCHANGED <<raw, validated, id_result, norm_once, batchVars, storeVars>>

IdNext == ValidateMessageId \/ NormalizeMessageId \/ NormalizeAgain

IdSpec == IdInit /\ [][IdNext]_vars

\* ------------------------------------------------------------------------
\* cli/main.py: process_emails, one action per way through the loop body
\* ------------------------------------------------------------------------
Init ==
    /\ IdIdle
    /\ fs = [p \in Paths |-> NoFile("absent")]
    /\ email_paths = <<>>
    /\ pc = "start"
    /\ idx = 1
    /\ total_emails = 0
    /\ total_items = 0
    /\ email_messages = {}
    /\ extracted_items = {}
    /\ index_anomalies = {}
    /\ audit_log = <<>>
    /\ next_uuid = 1
    /\ trace = <<>>
    /\ summary = NoSummary
    /\ StoreIdle

\* main() calls process_emails with some list of paths, over some file
\* system; lines 43-67 open a fresh store and set the counters
Invoke ==
    /\ pc = "start"
    /\ fs' \in [Paths -> Files]
    /\ email_paths' \in UNION {[1..n -> Paths] : n \in 0..MaxInputs}
    /\ trace' = [i \in 1..Len(email_paths') |-> NoTrace]
    /\ pc' = "loop"
    /\ UNCHANGED <<idVars, storeVars, idx, total_emails, total_items, email_messages,
                   extracted_items, index_anomalies, audit_log, next_uuid, summary>>

\* `continue`, and falling off the end of the loop body
Continue(i) == [pc |-> "loop", idx |-> i + 1]

\* an exception raised outside the try leaves process_emails
Propagate(i) == [pc |-> "raised", idx |-> i]

\* except Exception as e: ... continue
except_Exception(i) == Continue(i)

InLoop == pc = "loop" /\ idx <= Len(email_paths)

email_path == email_paths[idx]

\* In the actions below the bound names file_result, metadata,
\* validation_result and email are the local variables of the loop body.

Visit(fields) ==
    [trace EXCEPT ![idx] =
        [f \in DOMAIN NoTrace |->
            IF f = "visits" THEN trace[idx].visits + 1
            ELSE IF f = "ordinal" THEN total_emails + 1
            ELSE IF f \in DOMAIN fields THEN fields[f]
            ELSE trace[idx][f]]]

Goto(target) == pc' = target.pc /\ idx' = target.idx

\* line 77 raises; the call is outside the try of line 83
FileCheckRaises ==
    /\ InLoop
    /\ \E file_result \in {validate_email_file(fs[email_path].status)} :
          /\ IsRaised(file_result)
          /\ trace' = Visit([escaped |-> file_result.raised])
    /\ total_emails' = total_emails + 1
    /\ Goto(Propagate(idx))
    /\ UNCHANGED <<idVars, storeVars, fs, email_paths, total_items, email_messages,
                   extracted_items, index_anomalies, audit_log, next_uuid, summary>>

\* lines 77-81
FileCheckFails ==
    /\ InLoop
    /\ \E file_result \in {validate_email_file(fs[email_path].status)} :
          /\ ~IsRaised(file_result)
          /\ ~file_result.is_valid
          /\ trace' = Visit([file_result |-> file_result])
    /\ total_emails' = total_emails + 1
    /\ Goto(Continue(idx))
    /\ UNCHANGED <<idVars, storeVars, fs, email_paths, total_items, email_messages,
                   extracted_items, index_anomalies, audit_log, next_uuid, summary>>

\* line 85 raises, lines 172-175 catch
ExtractionRaises ==
    /\ InLoop
    /\ \E file_result \in {validate_email_file(fs[email_path].status)},
          metadata \in {extract_metadata(email_path, fs[email_path])} :
          /\ ~IsRaised(file_result)
          /\ file_result.is_valid
          /\ IsRaised(metadata)
          /\ trace' = Visit([file_result |-> file_result, extract |-> "raised",
                             swallowed |-> metadata.raised])
    /\ total_emails' = total_emails + 1
    /\ Goto(except_Exception(idx))
    /\ UNCHANGED <<idVars, storeVars, fs, email_paths, total_items, email_messages,
                   extracted_items, index_anomalies, audit_log, next_uuid, summary>>

\* the row is saved whether or not the validator holds a repository
create_anomaly_record_always_saves(anomaly_repo, table, anomaly_id, anomaly_type, email_file_path, message_id_value, error_details) ==
    IndexAnomalyRepository_save(table,
        IndexAnomaly(anomaly_id, _map_anomaly_type(anomaly_type),
                     email_file_path, message_id_value, error_details, FALSE))

\* IndexValidator.create_anomaly_record: the table after the call that
\* drew anomaly_id from uuid4 and returns it; anomaly_repo tells whether the
\* validator holds a repository
create_anomaly_record(anomaly_repo, table, anomaly_id, anomaly_type, email_file_path, message_id_value, error_details) ==
    IF anomaly_repo
    THEN IndexAnomalyRepository_save(table,
             IndexAnomaly(anomaly_id, _map_anomaly_type(anomaly_type),
                          email_file_path, message_id_value, error_details,
                          FALSE))
    ELSE table

\* lines 93-114; fault names the store or log operation that raises, if any
IdentifierCheckFails ==
    /\ InLoop
    /\ \E fault \in {"none", "anomaly_save", "audit_write"},
          file_result \in {validate_email_file(fs[email_path].status)},
          metadata \in {extract_metadata(email_path, fs[email_path])} :
          /\ ~IsRaised(file_result)
          /\ file_result.is_valid
          /\ ~IsRaised(metadata)
          /\ \E validation_result \in {validate_message_id(metadata.message_id)} :
                /\ ~validation_result.is_valid
                /\ Goto(IF fault = "none" THEN Continue(idx)
                                          ELSE except_Exception(idx))
                /\ index_anomalies' =
                      IF fault = "anomaly_save" THEN index_anomalies
                      ELSE create_anomaly_record(TRUE, index_anomalies,
                               next_uuid, validation_result.anomaly_type,
                               email_path, metadata.message_id,
                               validation_result.error_details)
                /\ audit_log' =
                      IF fault # "none" THEN audit_log
                      ELSE log_index_anomaly(audit_log, next_uuid,
                               validation_result.anomaly_type, email_path,
                               metadata.message_id)
                /\ trace' = Visit([file_result |-> file_result,
                         extract |-> "returned",
                         id_result |-> validation_result,
                         anomaly_ids |-> IF fault = "anomaly_save" THEN {} ELSE {next_uuid},
                         audit_ids |-> IF fault # "none" THEN {} ELSE {next_uuid},
                         swallowed |-> IF fault = "none" THEN "none" ELSE "OSError",
                         fault |-> fault])
    /\ total_emails' = total_emails + 1
    /\ next_uuid' = next_uuid + 1
    /\ UNCHANGED <<idVars, storeVars, fs, email_paths, total_items, email_messages,
                   extracted_items, summary>>

\* lines 117-170; EmailMessage checks what EmailMetadata has checked already,
\* so line 117 does not raise on a metadata record that line 85 returned
MessageIndexed ==
    /\ InLoop
    /\ \E fault \in {"none", "email_save", "item_save"},
          file_result \in {validate_email_file(fs[email_path].status)},
          metadata \in {extract_metadata(email_path, fs[email_path])} :
          /\ ~IsRaised(file_result)
          /\ file_result.is_valid
          /\ ~IsRaised(metadata)
          /\ \E validation_result \in {validate_message_id(metadata.message_id)},
                email \in {EmailMessage(metadata)} :
                /\ validation_result.is_valid
                /\ ~IsRaised(email)
                /\ Goto(IF fault = "none" THEN Continue(idx)
                                          ELSE except_Exception(idx))
                /\ next_uuid' = IF fault = "email_save" THEN next_uuid
                                                         ELSE next_uuid + 1
                /\ total_items' = IF fault = "none" THEN total_items + 1
                                                     ELSE total_items
                /\ email_messages' =
                      IF fault = "email_save" THEN email_messages
                      ELSE EmailMessageRepository_save(email_messages, email)
                /\ extracted_items' =
                      IF fault = "email_save" THEN extracted_items
                      ELSE IF fault = "item_save"
                      THEN REPLACE_INTO_email_messages(email_messages,
                               extracted_items, email)
                      ELSE ExtractedItemRepository_save(
                               REPLACE_INTO_email_messages(email_messages,
                                   extracted_items, email),
                               ExtractedItem(next_uuid, metadata.message_id,
                                             email_path, SAMPLE_CONFIDENCE, "normal"))
                /\ trace' = Visit([file_result |-> file_result,
                         extract |-> "returned",
                         id_result |-> validation_result,
                         msg_saved |-> fault # "email_save",
                         item_saved |-> fault = "none",
                         swallowed |-> IF fault = "none" THEN "none" ELSE "OSError",
                         fault |-> fault])
    /\ total_emails' = total_emails + 1
    /\ UNCHANGED <<idVars, storeVars, fs, email_paths, index_anomalies, audit_log, summary>>

\* lines 177-188; a failing read of the anomaly table leaves through the caller
Summarize ==
    /\ pc = "loop"
    /\ idx > Len(email_paths)
    /\ \E fault \in {"none", "summary_read"} :
          /\ pc' = IF fault = "none" THEN "done" ELSE "raised"
          /\ summary' = IF fault = "none"
                        THEN get_anomalies_summary(TRUE, index_anomalies, Nothing)
                        ELSE summary
    /\ UNCHANGED <<idVars, storeVars, fs, email_paths, idx, total_emails, total_items,
                   email_messages, extracted_items, index_anomalies, audit_log,
                   next_uuid, trace>>

Next ==
    \/ Invoke
    \/ FileCheckRaises
    \/ FileCheckFails
    \/ ExtractionRaises
    \/ IdentifierCheckFails
    \/ MessageIndexed
    \/ Summarize

Spec == Init /\ [][Next]_vars

\* the interpreter runs the loop to its end
FairSpec == Spec /\ WF_vars(Next)

\* ------------------------------------------------------------------------
\* src/storage/database.py: the message and item repositories, called in any
\* order by a holder of the connection
\* ------------------------------------------------------------------------
MaxItems == 2

OtherId == <<"<", "x", "@", "y", ".", "z", "z", ">">>
StoreIds == {get_message_id(GoodId), OtherId}
Subjects == {<<"o", "n", "e">>, <<"t", "w", "o">>}
ItemIds == 1..MaxItems
\* 0.5 and 0.85, the threshold itself, and one value on each side of [0, 1]
Scores == {-1, 50, CONFIDENCE_THRESHOLD, SAMPLE_CONFIDENCE, 101}
IndexStatus == {"normal", "anomaly"}

StoreInit == IdIdle /\ BatchIdle /\ StoreIdle

\* EmailMessage(...) followed by EmailMessageRepository.save
SaveEmail ==
    /\ pc = "idle"
    /\ \E message_id \in StoreIds, file_path \in Paths, subject \in Subjects :
          \E email \in {EmailMessage(
                  [message_id |-> message_id, sender_email |-> Sender,
                   subject |-> subject, file_path |-> file_path,
                   format |-> "mbox", storage_offset |-> Some(0),
                   maildir_key |-> Nothing])} :
             /\ ~IsRaised(email)
             /\ email_messages' = EmailMessageRepository_save(email_messages, email)
             /\ extracted_items' =
                   REPLACE_INTO_email_messages(email_messages, extracted_items, email)
             /\ op' = [name |-> "email_save", raised |-> "none", email |-> email,
                       replaced |-> parent_rows(email_messages, message_id, file_path) # {}]
    /\ UNCHANGED <<idVars, fs, email_paths, pc, idx, total_emails, total_items,
                   index_anomalies, audit_log, next_uuid, trace, summary, export,
                   workers>>

\* ExtractedItem(...) followed by ExtractedItemRepository.save, for a score
\* and a status out of the given sets; the INSERT is refused with
\* IntegrityError only under foreign-key enforcement
SaveItem(scores, statuses) ==
    /\ pc = "idle"
    /\ \E item_id \in ItemIds, source_message_id \in StoreIds,
          source_file_path \in Paths, confidence_score \in scores,
          index_status \in statuses :
          \E item \in {ExtractedItem(item_id, source_message_id, source_file_path,
                                     confidence_score, index_status)},
             parent_found \in {parent_rows(email_messages, source_message_id,
                                           source_file_path) # {}} :
             /\ extracted_items' =
                   IF IsRaised(item) \/ (foreign_keys /\ ~parent_found)
                   THEN extracted_items
                   ELSE ExtractedItemRepository_save(extracted_items, item)
             /\ op' = [name |-> "item_save",
                       raised |-> IF IsRaised(item) THEN item.raised
                                  ELSE IF foreign_keys /\ ~parent_found
                                  THEN "IntegrityError" ELSE "none",
                       confidence_score |-> confidence_score,
                       index_status |-> IF IsRaised(item) THEN "none"
                                        ELSE item.index_status,
                       parent_found |-> parent_found]
    /\ UNCHANGED <<idVars, fs, email_paths, pc, idx, total_emails, total_items,
                   email_messages, index_anomalies, audit_log, next_uuid, trace,
                   summary, export, workers>>

\* a DELETE of one message row issued on the connection that connect() returns
DeleteEmail ==
    /\ pc = "idle"
    /\ \E message_id \in StoreIds, file_path \in Paths :
          /\ parent_rows(email_messages, message_id, file_path) # {}
          /\ email_messages' = DELETE_FROM_email_messages(email_messages, message_id, file_path)
          /\ extracted_items' = ON_DELETE_CASCADE(extracted_items, message_id, file_path)
          /\ op' = [name |-> "email_delete", raised |-> "none",
                    message_id |-> message_id, file_path |-> file_path]
    /\ UNCHANGED <<idVars, fs, email_paths, pc, idx, total_emails, total_items,
                   index_anomalies, audit_log, next_uuid, trace, summary, export, workers>>

\* messages and items of one confidence, saved and deleted in any order
StoreNext ==
    \/ SaveEmail
    \/ SaveItem({SAMPLE_CONFIDENCE}, {"normal"})
    \/ DeleteEmail

StoreSpec == StoreInit /\ [][StoreNext]_vars

\* items of every confidence and every caller-supplied status
ItemNext == SaveItem(Scores, IndexStatus)

ItemSpec == StoreInit /\ [][ItemNext]_vars

\* ------------------------------------------------------------------------
\* src/storage/database.py, IndexAnomalyRepository, and the validator that
\* writes through it; anomaly ids are uuid4 draws, numbered as drawn
\* ------------------------------------------------------------------------
MaxAnomalies == 2

AnomalyPath == "/mail/a.eml"
\* identifier values a caller can hand over: None, "", and a string
IdValues == {None, <<>>, OtherId}
\* type strings handed to create_anomaly_record, one of them unknown
TypeStrings == AnomalyTypes \cup {"unknown_type"}

\* types of the anomalies a caller builds itself: the one whose value is
\* cleared and one whose value is kept
CallerTypes == {"missing_message_id", "malformed_message_id"}

\* the row stored under an id
AnomalyRow(table, anomaly_id) == {a \in table : a.anomaly_id = anomaly_id}

\* the error description a caller hands over
ErrorDetails == "Message-ID invalid"

\* IndexAnomaly(...) followed by IndexAnomalyRepository.save, under a fresh
\* id or under the id of an anomaly drawn before
SaveAnomaly ==
    /\ pc = "idle"
    /\ \E anomaly_id \in 1..MaxAnomalies, anomaly_type \in CallerTypes,
          message_id_value \in IdValues, resolved \in BOOLEAN :
          /\ anomaly_id <= next_uuid
          /\ next_uuid' = IF anomaly_id = next_uuid THEN next_uuid + 1 ELSE next_uuid
          /\ index_anomalies' =
                IndexAnomalyRepository_save(index_anomalies,
                    IndexAnomaly(anomaly_id, anomaly_type, AnomalyPath,
                                 message_id_value, ErrorDetails, resolved))
          /\ op' = [name |-> "anomaly_save", raised |-> "none",
                    anomaly_id |-> anomaly_id, given |-> message_id_value]
    /\ UNCHANGED <<idVars, fs, email_paths, pc, idx, total_emails, total_items,
                   email_messages, extracted_items, audit_log, trace, summary,
                   export, workers>>

\* IndexValidator.create_anomaly_record on a validator built with a
\* repository (anomaly_repo) or without one; the id returned is the one
\* uuid4 drew
CreateAnomalyRecord(repos, labels, paths, values) ==
    /\ pc = "idle"
    /\ next_uuid <= MaxAnomalies
    /\ \E anomaly_repo \in repos, anomaly_type \in labels,
          email_file_path \in paths, message_id_value \in values :
          /\ index_anomalies' =
                create_anomaly_record(anomaly_repo, index_anomalies, next_uuid,
                                      anomaly_type, email_file_path,
                                      message_id_value, ErrorDetails)
          /\ op' = [name |-> "anomaly_create", raised |-> "none",
                    anomaly_id |-> next_uuid, given |-> message_id_value,
                    anomaly_repo |-> anomaly_repo, anomaly_type |-> anomaly_type,
                    email_file_path |-> email_file_path]
    /\ next_uuid' = next_uuid + 1
    /\ UNCHANGED <<idVars, fs, email_paths, pc, idx, total_emails, total_items,
                   email_messages, extracted_items, audit_log, trace, summary,
                   export, workers>>

\* IndexValidator.get_anomalies_summary, with or without a repository and
\* with or without a file path, hands its result to the caller
ReadAnomalies(repos, scopes) ==
    /\ pc = "idle"
    /\ \E anomaly_repo \in repos, email_file_path \in scopes :
          op' = [name |-> "anomaly_read", raised |-> "none",
                 anomaly_repo |-> anomaly_repo,
                 email_file_path |-> email_file_path,
                 summary |-> get_anomalies_summary(anomaly_repo, index_anomalies,
                                                   email_file_path)]
    /\ UNCHANGED <<idVars, fs, email_paths, pc, idx, total_emails, total_items,
                   email_messages, extracted_items, index_anomalies, audit_log,
                   next_uuid, trace, summary, export, workers>>

\* IndexAnomalyRepository.save of a stored anomaly whose resolved flag the
\* caller has set
ResolveAnomaly ==
    /\ pc = "idle"
    /\ \E a \in index_anomalies :
          /\ ~a.resolved
          /\ index_anomalies' =
                IndexAnomalyRepository_save(index_anomalies,
                    IndexAnomaly(a.anomaly_id, a.anomaly_type, a.email_file_path,
                                 a.message_id_value, a.error_details, TRUE))
          /\ op' = [name |-> "anomaly_resolve", raised |-> "none",
                    anomaly_id |-> a.anomaly_id]
    /\ UNCHANGED <<idVars, fs, email_paths, pc, idx, total_emails, total_items,
                   email_messages, extracted_items, audit_log, next_uuid, trace,
                   summary, export, workers>>

AnomalyNext ==
    \/ SaveAnomaly
    \/ ResolveAnomaly
    \/ CreateAnomalyRecord({TRUE}, TypeStrings, {AnomalyPath}, IdValues)
    \/ ReadAnomalies({TRUE}, {Nothing, Some(AnomalyPath)})

AnomalySpec == StoreInit /\ [][AnomalyNext]_vars

\* ------------------------------------------------------------------------
\* The validator over the anomaly store: records created with and without
\* a repository, on two files, then resolved and summarized
\* ------------------------------------------------------------------------
\* the scopes get_anomalies_summary is called with
Scopes == {Nothing} \cup {Some(path) : path \in Paths}

ValidatorNext ==
    \/ CreateAnomalyRecord(BOOLEAN, TypeStrings, Paths, {OtherId})
    \/ ResolveAnomaly
    \/ ReadAnomalies(BOOLEAN, Scopes)

ValidatorSpec == StoreInit /\ [][ValidatorNext]_vars

\* ------------------------------------------------------------------------
\* src/models/email_message.py: EmailMessage built by a caller from every
\* combination of format tag and locators, and saved when it was built
\* ------------------------------------------------------------------------
Formats == {"mbox", "maildir", "mh"}
StorageOffsets == {Nothing, Some(0)}
MaildirKeys == {Nothing, Some("1700000000.M1P1.host")}

ConstructEmail ==
    /\ pc = "idle"
    /\ \E message_id \in {<<>>, OtherId}, sender_email \in {<<>>, Sender},
          file_path \in Paths, format \in Formats,
          storage_offset \in StorageOffsets, maildir_key \in MaildirKeys :
          \E email \in {EmailMessage([message_id |-> message_id,
                                      sender_email |-> sender_email,
                                      subject |-> Subject,
                                      file_path |-> file_path,
                                      format |-> format,
                                      storage_offset |-> storage_offset,
                                      maildir_key |-> maildir_key])} :
              /\ op' = [name |-> "email_construct",
                        raised |-> IF IsRaised(email) THEN email.raised ELSE "none",
                        format |-> format,
                        storage_offset |-> storage_offset,
                        maildir_key |-> maildir_key]
              /\ email_messages' =
                    IF IsRaised(email) THEN email_messages
                    ELSE EmailMessageRepository_save(email_messages, email)
    /\ UNCHANGED <<idVars, fs, email_paths, pc, idx, total_emails, total_items,
                   extracted_items, index_anomalies, audit_log, next_uuid, trace,
                   summary, export, workers>>

LocatorNext == ConstructEmail

LocatorSpec == StoreInit /\ [][LocatorNext]_vars

\* ------------------------------------------------------------------------
\* src/storage/audit_log.py: calls on one AuditLog, and a file that can hold
\* lines this program did not finish or did not write
\* ------------------------------------------------------------------------
MaxLines == 3

\* metadata dicts: empty, overriding event_type, and one json cannot encode
NoMetadata == [k \in {} |-> "none"]
Metadatas == {NoMetadata, [event_type |-> "item_extracted"], [blob |-> "object()"]}

LogIndexAnomaly ==
    /\ pc = "idle"
    /\ Len(audit_log) < MaxLines
    /\ \E message_id_value \in {None, OtherId} :
          \E f \in {_write_event_file(audit_log,
                        index_anomaly_event(1, "malformed_message_id",
                                            AnomalyPath, message_id_value))} :
             /\ audit_log' = log_index_anomaly(audit_log, 1, "malformed_message_id",
                                               AnomalyPath, message_id_value)
             /\ op' = [name |-> "log_index_anomaly", raised |-> "none",
                       closed |-> f.closed]
    /\ UNCHANGED <<idVars, fs, email_paths, pc, idx, total_emails, total_items,
                   email_messages, extracted_items, index_anomalies, next_uuid,
                   trace, summary, export, workers>>

LogTraceabilityEvent ==
    /\ pc = "idle"
    /\ Len(audit_log) < MaxLines
    /\ \E metadata \in Metadatas :
          \E event \in {traceability_event("email_parsed", OtherId, AnomalyPath,
                                           metadata)} :
             /\ audit_log' = log_traceability_event(audit_log, "email_parsed",
                                  OtherId, AnomalyPath, metadata)
             /\ op' = [name |-> "log_traceability_event",
                       raised |-> IF IsRaised(json_dumps(event))
                                  THEN json_dumps(event).raised ELSE "none",
                       closed |-> _write_event_file(audit_log, event).closed]
    /\ UNCHANGED <<idVars, fs, email_paths, pc, idx, total_emails, total_items,
                   email_messages, extracted_items, index_anomalies, next_uuid,
                   trace, summary, export, workers>>

\* the file gains a line that is no record: a blank one, one cut short, or
\* one cut inside a multi-byte character
ForeignLine ==
    /\ pc = "idle"
    /\ Len(audit_log) < MaxLines
    /\ \E line \in {BlankLine, BadUtf8Line,
                     Truncated([timestamp |-> "now", event_type |-> "index_anomaly"])} :
          audit_log' = Append(audit_log, line)
    /\ op' = [name |-> "foreign_line", raised |-> "none"]
    /\ UNCHANGED <<idVars, fs, email_paths, pc, idx, total_emails, total_items,
                   email_messages, extracted_items, index_anomalies, next_uuid,
                   trace, summary, export, workers>>

Export ==
    /\ pc = "idle"
    /\ \E document \in {export_traceability_data(audit_log)} :
          /\ export' = IF IsRaised(document) THEN export ELSE document
          /\ op' = [name |-> "export",
                    raised |-> IF IsRaised(document) THEN document.raised ELSE "none"]
    /\ UNCHANGED <<idVars, fs, email_paths, pc, idx, total_emails, total_items,
                   email_messages, extracted_items, index_anomalies, audit_log,
                   next_uuid, trace, summary, workers>>

LogNext == LogIndexAnomaly \/ LogTraceabilityEvent \/ ForeignLine \/ Export

LogSpec == StoreInit /\ [][LogNext]_vars

\* ------------------------------------------------------------------------
\* src/storage/audit_log.py: several workers call log_traceability_event on
\* one log file; each call opens the file for appending, leaves its line
\* in the file object's buffer, and hands it to the file when the with
\* block ends
\* ------------------------------------------------------------------------
Workers == 1..MaxWorkers

\* the buffered line is written at the offset the file had when it was
\* opened, over what other writers put there since
write_at_open_offset(log, offset, text) ==
    SubSeq(log, 1, offset) \o <<text>> \o SubSeq(log, offset + 2, Len(log))

\* write(2) on a descriptor opened with O_APPEND ("a"): the whole record
\* goes to the end the file has at the time of the write
write_O_APPEND(log, offset, text) == Append(log, text)

\* the event worker w issues as its n-th
WorkerEvent(w, n) ==
    traceability_event("email_parsed", OtherId, AnomalyPath,
                       [worker |-> w, seq |-> n])

\* open(self.log_path, "a") and f.write(json.dumps(event) + "\n")
WorkerOpen(w) ==
    /\ pc = "idle"
    /\ workers[w].f = Nothing
    /\ workers[w].issued < MaxEvents
    /\ workers' = [workers EXCEPT ![w] =
                      [issued |-> @.issued + 1,
                       f |-> Some([offset |-> Len(audit_log),
                                   buffer |-> json_dumps(
                                       WorkerEvent(w, @.issued + 1))])]]
    /\ UNCHANGED <<idVars, batchVars, op, export>>

\* the end of the with block: the buffer is written and the file closed
WorkerClose(w) ==
    /\ pc = "idle"
    /\ \E f \in workers[w].f :
          audit_log' = write_O_APPEND(audit_log, f.offset, f.buffer)
    /\ workers' = [workers EXCEPT ![w].f = Nothing]
    /\ UNCHANGED <<idVars, fs, email_paths, pc, idx, total_emails, total_items,
                   email_messages, extracted_items, index_anomalies, next_uuid,
                   trace, summary, op, export>>

WorkersNext == \E w \in Workers : WorkerOpen(w) \/ WorkerClose(w)

WorkersSpec == StoreInit /\ [][WorkersNext]_vars

\* ------------------------------------------------------------------------
\* Properties
\* ------------------------------------------------------------------------
Inputs == 1..Len(email_paths)
Visited(i) == trace[i].visits > 0
Returned == pc = "done"
Ended == pc \in {"done", "raised"}

FileOf(i) == fs[email_paths[i]]

\* rows and log lines written while input i was processed
AnomalyRowsOf(i) == {a \in index_anomalies : a.anomaly_id \in trace[i].anomaly_ids}
AuditLinesOf(i) ==
    {k \in 1..Len(audit_log) :
        json_loads(audit_log[k]).anomaly_id \in trace[i].audit_ids}

FileInvalid(i) ==
    /\ Visited(i)
    /\ trace[i].file_result # NotRun
    /\ ~trace[i].file_result.is_valid
IdentifierInvalid(i) ==
    /\ trace[i].file_result.is_valid
    /\ trace[i].id_result # NotRun
    /\ ~trace[i].id_result.is_valid
    /\ AnomalyRowsOf(i) # {}
Indexed(i) ==
    /\ trace[i].file_result.is_valid
    /\ trace[i].id_result.is_valid
    /\ trace[i].msg_saved

\* C1: when the pass has returned, every input was processed once and is in
\* exactly one of FileInvalid, IdentifierInvalid (anomaly recorded) and
\* Indexed (message row persisted).
C1_ExactlyOneTerminalState ==
    Returned =>
        \A i \in Inputs :
            /\ trace[i].visits = 1
            /\ Cardinality({st \in {"FileInvalid", "IdentifierInvalid", "Indexed"} :
                   \/ st = "FileInvalid" /\ FileInvalid(i)
                   \/ st = "IdentifierInvalid" /\ IdentifierInvalid(i)
                   \/ st = "Indexed" /\ Indexed(i)}) = 1

\* C2: an input whose file check failed had no extraction and no identifier
\* check, and exactly one anomaly, of type file_not_found, was recorded for it.
C2_FileInvalidRecordsOneAnomaly ==
    \A i \in Inputs :
        FileInvalid(i) =>
            /\ trace[i].extract = "not_run"
            /\ trace[i].id_result = NotRun
            /\ Cardinality(AnomalyRowsOf(i)) = 1
            /\ \A a \in AnomalyRowsOf(i) :
                  /\ a.anomaly_type = "file_not_found"
                  /\ a.email_file_path = email_paths[i]

\* the identifier of input i is absent or malformed
IdentifierBad(i) == ~validate_message_id(FileOf(i).message_id).is_valid

\* C3: an input with a valid file and an absent or malformed identifier has
\* exactly one anomaly row and exactly one audit line from this pass, and the
\* two agree on anomaly id, anomaly type and file path.
C3_IdentifierInvalidRecordedTwice ==
    \A i \in Inputs :
        (Visited(i) /\ trace[i].file_result.is_valid /\ IdentifierBad(i)) =>
            /\ Cardinality(AnomalyRowsOf(i)) = 1
            /\ Cardinality(AuditLinesOf(i)) = 1
            /\ \A a \in AnomalyRowsOf(i) : \A k \in AuditLinesOf(i) :
                  /\ json_loads(audit_log[k]).anomaly_id = a.anomaly_id
                  /\ json_loads(audit_log[k]).anomaly_type = a.anomaly_type
                  /\ json_loads(audit_log[k]).email_file_path = a.email_file_path
                  /\ a.email_file_path = email_paths[i]

\* rows of input i in the store
MessageRowsOf(i) ==
    {r \in email_messages :
        /\ r.file_path = email_paths[i]
        /\ r.message_id = get_message_id(FileOf(i).message_id)}
ItemRowsOf(i) ==
    {r \in extracted_items :
        /\ r.source_file_path = email_paths[i]
        /\ r.source_message_id = get_message_id(FileOf(i).message_id)}

NotIndexed == {i \in Inputs : ~Indexed(i)}
FailureType(i) ==
    IF ~trace[i].file_result.is_valid
    THEN trace[i].file_result.anomaly_type
    ELSE validate_message_id(FileOf(i).message_id).anomaly_type

\* C5: from an empty store, the returned summary counts the inputs that did
\* not reach Indexed, by failure type, all of them unresolved; one valid
\* input followed by one without identifier gives one message row, one
\* missing_message_id row and the summary {1, {missing_message_id: 1}, 1}.
C5_SummaryCountsFailedInputs ==
    Returned =>
        /\ summary.total_anomalies = Cardinality(NotIndexed)
        /\ summary.unresolved = summary.total_anomalies
        /\ DOMAIN summary.by_type = {FailureType(i) : i \in NotIndexed}
        /\ \A t \in DOMAIN summary.by_type :
              summary.by_type[t] =
                  Cardinality({i \in NotIndexed : FailureType(i) = t})
        /\ (/\ email_paths = <<"/mail/a.eml", "/mail/b.eml">>
            /\ fs["/mail/a.eml"] = Mail(GoodId, TRUE, Sender)
            /\ fs["/mail/b.eml"] = Mail(None, TRUE, Sender)) =>
              /\ Cardinality(email_messages) = 1
              /\ Cardinality(index_anomalies) = 1
              /\ summary = [total_anomalies |-> 1,
                            by_type |-> [t \in {"missing_message_id"} |-> 1],
                            unresolved |-> 1]

\* C6: process_emails over a finite list ends having attempted every input
\* once and in list order, whatever failed on the inputs before it.
C6_EveryInputAttempted ==
    <>(/\ Ended
       /\ total_emails = Len(email_paths)
       /\ \A i \in Inputs : trace[i].visits = 1 /\ trace[i].ordinal = i)

\* C7: a store or audit log failure raised while an input is processed
\* leaves process_emails through the caller at that input; the batch never
\* goes on past it.
C7_StoreFailureReachesCaller ==
    \A i \in Inputs :
        trace[i].fault # "none" => (pc = "raised" /\ idx = i)

AllBlank(s) == s = None \/ \A k \in 1..Len(s) : s[k] \in Whitespace

Positions(s, c) == {k \in 1..Len(s) : s[k] = c}

\* <localpart@domain-with-dot-and-2+-letter-tld>, read off deterministically:
\* one "@", the last "." after it, and the three segments between
WellFormedId(s) ==
    /\ Len(s) >= 2
    /\ s[1] = "<"
    /\ s[Len(s)] = ">"
    /\ Cardinality(Positions(s, "@")) = 1
    /\ LET at == CHOOSE k \in Positions(s, "@") : TRUE
           dots == {k \in Positions(s, ".") : k > at}
       IN  /\ dots # {}
           /\ LET dot == CHOOSE k \in dots : \A d \in dots : d <= k
              IN  /\ at > 2
                  /\ \A k \in 2..(at - 1) : s[k] \in LocalChars
                  /\ dot > at + 1
                  /\ \A k \in (at + 1)..(dot - 1) : s[k] \in DomainChars
                  /\ Len(s) - 1 - dot >= 2
                  /\ \A k \in (dot + 1)..(Len(s) - 1) : s[k] \in Letters

Missing == ValidationResult(FALSE, "missing_message_id", "absent", FALSE)
Valid == ValidationResult(TRUE, "None", "None", TRUE)
IsMalformed(r) ==
    ~r.is_valid /\ r.anomaly_type = "malformed_message_id" /\ ~r.can_recover

\* C8: validate_message_id(raw) is missing_message_id for an absent, empty or
\* whitespace-only raw; malformed_message_id when raw has no "@" or when its
\* normal form is not <local@domain.tld>; valid otherwise; recoverable exactly
\* when valid.
C8_ValidateClassifies ==
    (validated /\ norm_calls >= 1) =>
        /\ id_result.can_recover <=> id_result.is_valid
        /\ AllBlank(raw) <=> id_result = Missing
        /\ (~AllBlank(raw) /\ "@" \notin Range(raw)) =>
              (IsMalformed(id_result) /\ norm_once = ValueError)
        /\ (~AllBlank(raw) /\ norm_once = ValueError) => IsMalformed(id_result)
        /\ (norm_once # ValueError /\ ~WellFormedId(norm_once)) =>
              IsMalformed(id_result)
        /\ (norm_once # ValueError /\ WellFormedId(norm_once)) => id_result = Valid
        /\ raw = <<"<", "a", "@", "b", ">">> => IsMalformed(id_result)
        /\ raw = <<"t", "e", "s", "t", "@", "e", "x", "a", "m", "p", "l", "e",
                   ".", "c", "o", "m">> => id_result = Valid

\* an identifier without brackets that is accepted
C8_Witness ==
    /\ validated
    /\ norm_calls >= 1
    /\ raw = <<"t", "e", "s", "t", "@", "e", "x", "a", "m", "p", "l", "e",
               ".", "c", "o", "m">>
    /\ id_result = Valid

\* C9: the file check of every processed input returns without raising; it
\* is invalid, file_not_found and not recoverable when the path does not
\* exist, is not a regular file, or cannot be read, and valid exactly when
\* the path is a readable regular file.
C9_FileCheck ==
    \A i \in Inputs :
        Visited(i) =>
            /\ trace[i].escaped = "none"
            /\ trace[i].file_result # NotRun
            /\ FileOf(i).status # "readable" =>
                  /\ ~trace[i].file_result.is_valid
                  /\ trace[i].file_result.anomaly_type = "file_not_found"
                  /\ ~trace[i].file_result.can_recover
            /\ trace[i].file_result.is_valid <=> FileOf(i).status = "readable"

\* C10: for a non-empty raw containing "@", normalize_message_id(raw)
\* succeeds, starts with "<", ends with ">", and normalizing it again
\* returns it unchanged.
C10_NormalizeIdempotent ==
    (raw # None /\ raw # <<>> /\ "@" \in Range(raw)) =>
        /\ norm_calls >= 1 =>
              /\ norm_once # ValueError
              /\ Head(norm_once) = "<"
              /\ norm_once[Len(norm_once)] = ">"
        /\ norm_calls = 2 => norm_twice = norm_once

\* an identifier that came with its own brackets, normalized twice
C10_Witness ==
    /\ norm_calls = 2
    /\ "@" \in Range(raw)
    /\ Head(raw) = "<"
    /\ raw[Len(raw)] = ">"
    /\ norm_twice = norm_once

\* the input of normalize_message_id after line 29 and lines 32-35, read off
\* the characters of raw: first and last non-blank position, then one "<"
\* and one ">" less
FirstInk(s) == CHOOSE k \in 1..Len(s) :
    s[k] \notin Whitespace /\ \A j \in 1..(k - 1) : s[j] \in Whitespace
LastInk(s) == CHOOSE k \in 1..Len(s) :
    s[k] \notin Whitespace /\ \A j \in (k + 1)..Len(s) : s[j] \in Whitespace
CoreFrom(s) == IF s[FirstInk(s)] = "<" THEN FirstInk(s) + 1 ELSE FirstInk(s)
CoreTo(s) ==
    IF s[LastInk(s)] = ">" /\ LastInk(s) >= CoreFrom(s)
    THEN LastInk(s) - 1 ELSE LastInk(s)
NoAtInCore(s) == \A k \in CoreFrom(s)..CoreTo(s) : s[k] # "@"

\* C11: normalize_message_id(raw) fails with ValueError exactly when the
\* trimmed raw is empty or holds no "@" once one leading "<" and one trailing
\* ">" are taken off; every raw without "@" fails and no raw with "@" fails.
C11_NormalizeFailsExactlyWithoutAt ==
    norm_calls >= 1 =>
        /\ norm_once = ValueError <=> (AllBlank(raw) \/ NoAtInCore(raw))
        /\ norm_once = ValueError <=> (raw = None \/ "@" \notin Range(raw))

\* a bracketed identifier without "@" was refused
C11_Witness ==
    /\ norm_calls >= 1
    /\ raw # None
    /\ Len(raw) >= 3
    /\ Head(raw) = "<"
    /\ raw[Len(raw)] = ">"
    /\ "@" \notin Range(raw)
    /\ ~AllBlank(raw)
    /\ norm_once = ValueError

SameKey(r1, r2) == r1.message_id = r2.message_id /\ r1.file_path = r2.file_path

\* C12: every EmailMessageRepository.save leaves exactly one row per key
\* (message_id, file_path), the row of the saved key carries the fields just
\* saved, and the rows of every other key, with the same message_id under
\* another file_path included, stay as they were.
C12_EmailSaveIsUpsert ==
    [][op'.name = "email_save" =>
          /\ op'.email \in email_messages'
          /\ \A r1, r2 \in email_messages' : SameKey(r1, r2) => r1 = r2
          /\ \A r \in email_messages : ~SameKey(r, op'.email) => r \in email_messages'
          /\ \A r \in email_messages' : r = op'.email \/ r \in email_messages]_vars

\* one key saved again with another subject, beside a row with the same
\* message_id under the other file_path
C12_Witness ==
    /\ op.name = "email_save"
    /\ op.replaced
    /\ op.email.subject = <<"t", "w", "o">>
    /\ \A r \in email_messages : SameKey(r, op.email) => r.subject = <<"t", "w", "o">>
    /\ \E r \in email_messages :
          r.message_id = op.email.message_id /\ r.file_path # op.email.file_path

\* C13: a save of an item whose source key matches no stored message raises
\* an integrity error and leaves the item table unchanged.
C13_OrphanItemRefused ==
    [][(/\ op'.name = "item_save"
        /\ op'.raised # "ValueError"
        /\ ~op'.parent_found) =>
          /\ op'.raised = "IntegrityError"
          /\ extracted_items' = extracted_items]_vars

\* C14: every stored item's (source_message_id, source_file_path) matches
\* exactly one stored message row.
C14_EveryItemHasItsMessage ==
    \A item \in extracted_items :
        Cardinality(parent_rows(email_messages, item.source_message_id,
                                item.source_file_path)) = 1

\* C15: after a message row is deleted, find_by_source for its key is
\* empty, and the items of every other message are as they were.
C15_DeleteCascades ==
    [][op'.name = "email_delete" =>
          /\ find_by_source(extracted_items', op'.message_id, op'.file_path) = {}
          /\ \A r \in extracted_items :
                ~(r.source_message_id = op'.message_id
                  /\ r.source_file_path = op'.file_path) => r \in extracted_items'
          /\ extracted_items' \subseteq extracted_items]_vars

\* C16: an item is constructed exactly when its score is within [0, 1]; its
\* index_status is anomaly exactly when the score is below the threshold,
\* whatever status was passed in; stored and read-back items obey the same
\* rule, and find_all_with_anomalies returns exactly the stored items below
\* the threshold.
C16_StatusFollowsConfidence ==
    /\ op.name = "item_save" =>
          /\ op.raised = "ValueError" <=>
                 (op.confidence_score < 0 \/ op.confidence_score > 100)
          /\ op.raised # "ValueError" =>
                 (op.index_status = "anomaly" <=>
                     op.confidence_score < CONFIDENCE_THRESHOLD)
          /\ op.raised # "ValueError" =>
                 (op.index_status = "normal" <=>
                     op.confidence_score >= CONFIDENCE_THRESHOLD)
    /\ \A r \in extracted_items :
          /\ r.confidence_score \in 0..100
          /\ r.index_status = "anomaly" <=> r.confidence_score < CONFIDENCE_THRESHOLD
          /\ _row_to_item(r) = r
    /\ find_all_with_anomalies(extracted_items) =
          {r \in extracted_items : r.confidence_score < CONFIDENCE_THRESHOLD}

\* items at 0.5 and at the threshold are stored, and only the first is
\* returned as an anomaly
C16_Witness ==
    /\ \E r \in extracted_items : r.confidence_score = 50 /\ r.index_status = "anomaly"
    /\ \E r \in extracted_items :
          /\ r.confidence_score = CONFIDENCE_THRESHOLD
          /\ r.index_status = "normal"
          /\ r \notin find_all_with_anomalies(extracted_items)
    /\ find_all_with_anomalies(extracted_items) # {}

\* C17: every stored anomaly of type missing_message_id has no identifier
\* value (None); the anomaly just constructed and saved holds None if its
\* type is missing_message_id and the value it was given otherwise.
C17_MissingTypeHasNoValue ==
    /\ \A a \in index_anomalies :
          a.anomaly_type = "missing_message_id" => a.message_id_value = None
    /\ op.name \in {"anomaly_save", "anomaly_create"} =>
          \A a \in AnomalyRow(index_anomalies, op.anomaly_id) :
              a.message_id_value =
                  IF a.anomaly_type = "missing_message_id" THEN None ELSE op.given

AnomalyIdsOf(table) == {a.anomaly_id : a \in table}

\* C18: no step removes an anomaly id from the anomaly table, and the table
\* never holds two rows under one id.
C18_AnomaliesPermanent ==
    [][/\ AnomalyIdsOf(index_anomalies) \subseteq AnomalyIdsOf(index_anomalies')
       /\ \A a \in index_anomalies' :
             Cardinality(AnomalyRow(index_anomalies', a.anomaly_id)) = 1]_vars

\* a stored anomaly was saved again under its id with other fields, beside
\* another stored anomaly
C18_Witness ==
    /\ op.name = "anomaly_save"
    /\ op.anomaly_id + 1 < next_uuid
    /\ \E a \in AnomalyRow(index_anomalies, op.anomaly_id) : a.resolved
    /\ Cardinality(AnomalyIdsOf(index_anomalies)) = MaxAnomalies

LogCalls == {"log_index_anomaly", "log_traceability_event"}

Parseable(log) == SelectSeq(log, LAMBDA line : line.text = "json")

\* C20: an export does not fail whatever the lines are, and the document it
\* writes holds the records of exactly the parseable lines, in log order; one
\* valid line and one damaged line export one record, a missing log exports
\* an empty collection.
C20_ExportKeepsParseableLines ==
    op.name = "export" =>
        /\ op.raised = "none"
        /\ export.written
        /\ Len(export.events) = Len(Parseable(audit_log))
        /\ \A k \in 1..Len(export.events) :
              export.events[k] = Parseable(audit_log)[k].value
        /\ (Len(audit_log) = 2 /\ Len(Parseable(audit_log)) = 1) =>
              Len(export.events) = 1
        /\ audit_log = <<>> => export.events = <<>>

\* ids create_anomaly_record has returned so far: uuid4 draws them in turn
ReturnedIds == 1..(next_uuid - 1)

\* C21: a create_anomaly_record call returns an id that no earlier call
\* returned and no stored row carries; with a repository the table gains
\* exactly one row, unresolved, with that id, the mapped type, the path and
\* the detail handed over, and keeps every other row; without a repository
\* the id is returned and the tables and the audit log stay as they were.
C21_CreateAddsOneUnresolvedRow ==
    [][op'.name = "anomaly_create" =>
          /\ op'.anomaly_id \notin ReturnedIds
          /\ op'.anomaly_id \notin AnomalyIdsOf(index_anomalies)
          /\ op'.anomaly_id \in ReturnedIds'
          /\ op'.anomaly_repo =>
                /\ Cardinality(index_anomalies') = Cardinality(index_anomalies) + 1
                /\ index_anomalies \subseteq index_anomalies'
                /\ \E a \in index_anomalies' \ index_anomalies :
                      /\ a.anomaly_id = op'.anomaly_id
                      /\ a.anomaly_type = _map_anomaly_type(op'.anomaly_type)
                      /\ a.email_file_path = op'.email_file_path
                      /\ a.error_details = ErrorDetails
                      /\ ~a.resolved
          /\ ~op'.anomaly_repo =>
                /\ index_anomalies' = index_anomalies
                /\ email_messages' = email_messages
                /\ extracted_items' = extracted_items
                /\ audit_log' = audit_log]_vars

\* a call with a repository has stored its row after a call without one
\* returned an id and stored nothing
C21_Witness ==
    /\ op.name = "anomaly_create"
    /\ op.anomaly_repo
    /\ op.anomaly_id = 2
    /\ AnomalyIdsOf(index_anomalies) = {2}

RECURSIVE SumOver(_, _)
\* the sum of by_type's counts over the types in keys
SumOver(by_type, keys) ==
    IF keys = {} THEN 0
    ELSE LET t == CHOOSE k \in keys : TRUE
         IN by_type[t] + SumOver(by_type, keys \ {t})

\* the anomalies a summary call has to count
Counted(anomaly_repo, table, email_file_path) ==
    IF ~anomaly_repo THEN {}
    ELSE IF email_file_path = Nothing
         THEN {a \in table : ~a.resolved}
         ELSE {a \in table : a.email_file_path \in email_file_path}

\* C22: a summary returned without a repository is all zero; with a file
\* path it counts exactly the stored anomalies of that file, without one
\* exactly the unresolved ones; by_type holds the count of each type
\* counted, total_anomalies is the sum of by_type, and unresolved is the
\* number of counted anomalies that are not resolved.
C22_SummaryCounts ==
    op.name = "anomaly_read" =>
        LET counted == Counted(op.anomaly_repo, index_anomalies, op.email_file_path)
            by_type == op.summary.by_type
        IN /\ op.summary.total_anomalies = Cardinality(counted)
           /\ DOMAIN by_type = {a.anomaly_type : a \in counted}
           /\ \A t \in DOMAIN by_type :
                 by_type[t] = Cardinality({a \in counted : a.anomaly_type = t})
           /\ op.summary.total_anomalies = SumOver(by_type, DOMAIN by_type)
           /\ op.summary.unresolved =
                 Cardinality({a \in counted : ~a.resolved})
           /\ ~op.anomaly_repo =>
                 /\ op.summary.total_anomalies = 0
                 /\ op.summary.unresolved = 0
                 /\ DOMAIN by_type = {}

\* a summary of one file counted its resolved anomaly and left out the
\* unresolved anomaly of the other file
C22_Witness ==
    /\ op.name = "anomaly_read"
    /\ op.anomaly_repo
    /\ op.email_file_path # Nothing
    /\ op.summary.total_anomalies = 1
    /\ op.summary.unresolved = 0
    /\ \E a \in index_anomalies :
          ~a.resolved /\ a.email_file_path \notin op.email_file_path

\* C28: the row stored by create_anomaly_record carries the type
\* malformed_message_id when the type label handed over is none of the
\* known types, and the label itself when it is one of them.
C28_UnknownLabelStoredAsMalformed ==
    op.name = "anomaly_create" /\ op.anomaly_repo =>
        /\ AnomalyRow(index_anomalies, op.anomaly_id) # {}
        /\ \A a \in AnomalyRow(index_anomalies, op.anomaly_id) :
              a.anomaly_type =
                  IF op.anomaly_type \in AnomalyTypes
                  THEN op.anomaly_type
                  ELSE "malformed_message_id"

\* a record created under an unknown label sits in the store as
\* malformed_message_id
C28_Witness ==
    /\ op.name = "anomaly_create"
    /\ op.anomaly_repo
    /\ op.anomaly_type \notin AnomalyTypes
    /\ \E a \in AnomalyRow(index_anomalies, op.anomaly_id) :
          a.anomaly_type = "malformed_message_id"

\* C27: a save under a stored id leaves the number of rows and every other
\* row as they were and leaves one row under that id; saving the same
\* anomaly once more changes nothing; a stored anomaly saved again with
\* resolved set differs from the old row in that flag only, is no longer
\* returned by find_unresolved and is still returned by find_by_email_path
\* for its file.
C27_AnomalySaveIsUpsert ==
    [][op'.name \in {"anomaly_save", "anomaly_resolve"} =>
          LET anomaly_id == op'.anomaly_id
              old == AnomalyRow(index_anomalies, anomaly_id)
              new == AnomalyRow(index_anomalies', anomaly_id)
          IN /\ Cardinality(new) = 1
             /\ old # {} =>
                   /\ Cardinality(index_anomalies') = Cardinality(index_anomalies)
                   /\ index_anomalies' \ new = index_anomalies \ old
             /\ \A b \in new :
                   IndexAnomalyRepository_save(index_anomalies', b) = index_anomalies'
             /\ op'.name = "anomaly_resolve" =>
                   /\ old # {}
                   /\ \A a \in old : new = {[a EXCEPT !.resolved = TRUE]}
                   /\ find_unresolved(index_anomalies') \cap new = {}
                   /\ \A b \in new :
                         b \in find_by_email_path(index_anomalies', b.email_file_path)]_vars

\* a stored anomaly was saved again with resolved set, beside another
\* stored anomaly that is still unresolved
C27_Witness ==
    /\ op.name = "anomaly_resolve"
    /\ Cardinality(index_anomalies) = MaxAnomalies
    /\ find_unresolved(index_anomalies) # {}
    /\ \E a \in AnomalyRow(index_anomalies, op.anomaly_id) : a.resolved

\* C23: the visit of an input whose identifier check fails and whose
\* anomaly store save raises still appends one index_anomaly line for that
\* file to the audit log.
C23_AuditSurvivesStoreFailure ==
    [][\A i \in Inputs :
          (~Visited(i) /\ Visited(i)' /\ trace'[i].fault = "anomaly_save") =>
              /\ Len(audit_log') = Len(audit_log) + 1
              /\ json_loads(audit_log'[Len(audit_log')]).event_type = "index_anomaly"
              /\ json_loads(audit_log'[Len(audit_log')]).email_file_path =
                    email_paths[i]]_vars

\* C24: every row of email_messages holds a non-empty message_id that is
\* its own normal form, is enclosed in angle brackets, matches the
\* validator's pattern in full and passes validate_message_id, and a
\* non-empty sender_email; an input whose identifier fails validation has
\* no row.
C24_StoredMessagesAreCanonical ==
    /\ \A r \in email_messages :
          /\ ~Falsy(r.message_id)
          /\ FullMatch(r.message_id)
          /\ normalize_message_id(r.message_id) = r.message_id
          /\ validate_message_id(r.message_id).is_valid
          /\ ~Falsy(r.sender_email)
    /\ \A i \in Inputs :
          Visited(i) /\ IdentifierBad(i) => MessageRowsOf(i) = {}

\* a message whose header held the identifier without angle brackets is
\* stored under the bracketed form
C24_Witness ==
    \E i \in Inputs :
        /\ Indexed(i)
        /\ ~FullMatch(FileOf(i).message_id)
        /\ \E r \in MessageRowsOf(i) : FullMatch(r.message_id)

\* C25: an EmailMessage is constructed only with exactly one locator, the
\* one its format names: storage_offset alone for mbox, maildir_key alone
\* for maildir; and every row of email_messages is of that form.
C25_ExactlyOneLocator ==
    /\ op.name = "email_construct" /\ op.raised = "none" =>
          \/ /\ op.format = "mbox"
             /\ op.storage_offset # Nothing
             /\ op.maildir_key = Nothing
          \/ /\ op.format = "maildir"
             /\ op.maildir_key # Nothing
             /\ op.storage_offset = Nothing
    /\ \A r \in email_messages :
          (r.storage_offset = Nothing) # (r.maildir_key = Nothing)

\* the record the last line of the log parses to
LastRecord == json_loads(audit_log[Len(audit_log)])

\* C26: the line a log_traceability_event call has appended holds a
\* timestamp and the event type, message id and file path the caller gave,
\* whatever the metadata holds; the line a log_index_anomaly call has
\* appended holds a timestamp and the event type index_anomaly.
C26_RecordsCarryCallerFields ==
    /\ op.name = "log_traceability_event" /\ op.raised = "none" =>
          /\ "timestamp" \in DOMAIN LastRecord
          /\ LastRecord.event_type = "email_parsed"
          /\ LastRecord.message_id = OtherId
          /\ LastRecord.file_path = AnomalyPath
    /\ op.name = "log_index_anomaly" /\ op.raised = "none" =>
          /\ "timestamp" \in DOMAIN LastRecord
          /\ LastRecord.event_type = "index_anomaly"

\* the positions of the log that hold the n-th event of worker w
PositionsOf(w, n) ==
    {k \in 1..Len(audit_log) :
        /\ json_loads(audit_log[k]).worker = w
        /\ json_loads(audit_log[k]).seq = n}

\* the number of events worker w has handed to the file
Written(w) ==
    IF workers[w].f = Nothing THEN workers[w].issued ELSE workers[w].issued - 1

\* C29: with every record appended in one piece, the log holds each event
\* a worker has written exactly once and no other line, and the events of
\* one worker stand in the order the worker issued them, whatever the
\* interleaving of the workers.
C29_PerWorkerOrderKept ==
    /\ \A w \in Workers : \A n \in 1..MaxEvents :
          Cardinality(PositionsOf(w, n)) = IF n <= Written(w) THEN 1 ELSE 0
    /\ Len(audit_log) = SumOver([w \in Workers |-> Written(w)], Workers)
    /\ \A j, k \in 1..Len(audit_log) :
          (/\ j < k
           /\ json_loads(audit_log[j]).worker = json_loads(audit_log[k]).worker)
              => json_loads(audit_log[j]).seq < json_loads(audit_log[k]).seq

\* the events of two workers are interleaved in the log, and a worker holds
\* the file open since before the last lines were written
C29_Witness ==
    /\ Len(audit_log) >= 4
    /\ \E j \in 1..(Len(audit_log) - 2) :
          /\ json_loads(audit_log[j]).worker = json_loads(audit_log[j + 2]).worker
          /\ json_loads(audit_log[j]).worker # json_loads(audit_log[j + 1]).worker
    /\ \E w \in Workers : \E f \in workers[w].f : f.offset + 2 <= Len(audit_log)

\* C30: a save of an email message under a key that is stored already and
\* has item rows leaves extracted_items as it was, so find_by_source for
\* that key returns the same items after the save as before it.
C30_ResaveKeepsItems ==
    [][op'.name = "email_save" /\ op'.replaced =>
          /\ find_by_source(extracted_items', op'.email.message_id,
                            op'.email.file_path)
                = find_by_source(extracted_items, op'.email.message_id,
                                 op'.email.file_path)
          /\ extracted_items' = extracted_items]_vars

\* a stored message with an item row was saved again with another subject
C30_Witness ==
    /\ op.name = "email_save"
    /\ op.replaced
    /\ op.email \in email_messages
    /\ find_by_source(extracted_items, op.email.message_id, op.email.file_path) # {}
    /\ Cardinality(email_messages) > 1

====
